---- MODULE Spec2Model ----
(***************************************************************************)
(* yurt: a typed client over the aoe4guides.com build-order API.           *)
(*                                                                         *)
(* Three parts are modelled:                                               *)
(*   - the query encoder (query.rs): Query::from_parts and the form        *)
(*     encoding the Serialize derive of Query produces;                    *)
(*   - the response schema (types.rs): the Deserialize derives, as a       *)
(*     structural decoder over JSON values;                                *)
(*   - the client (client.rs): the four endpoint calls, the URL each one   *)
(*     builds and the outcome it returns.                                  *)
(*                                                                         *)
(* Text is a sequence of one-character strings, so that formatting,        *)
(* encoding and URL parsing are computed character by character.           *)
(***************************************************************************)
EXTENDS Integers, Sequences, FiniteSets, TLC

VARIABLES
    pc,        \* position of the running operation
    args,      \* arguments of the operation under way
    query,     \* the Query value built by from_parts
    encoded,   \* the form-encoded text of query
    url,       \* the URL of the request in flight
    body,      \* the response received (or the document to decode)
    outcome,   \* the value the operation returned
    nCalls,    \* endpoint calls made on the client so far
    nSent      \* GET requests handed to the transport so far

vars == <<pc, args, query, encoded, url, body, outcome, nCalls, nSent>>

(***************************************************************************)
(* Option<T>                                                               *)
(***************************************************************************)
None == [some |-> FALSE]
Some(x) == [some |-> TRUE, v |-> x]

(***************************************************************************)
(* Text helpers                                                            *)
(***************************************************************************)
RECURSIVE Concat(_)
Concat(ss) == IF ss = <<>> THEN <<>> ELSE Head(ss) \o Concat(Tail(ss))

\* index of the first character of s that lies in cs, or Len(s) + 1
RECURSIVE FirstOf(_, _, _)
FirstOf(s, cs, i) ==
    IF i > Len(s) THEN Len(s) + 1
    ELSE IF s[i] \in cs THEN i
    ELSE FirstOf(s, cs, i + 1)

\* the pieces of s between occurrences of the separator c
RECURSIVE Split(_, _)
Split(s, c) ==
    LET i == FirstOf(s, {c}, 1)
    IN  IF i > Len(s) THEN <<s>>
        ELSE <<SubSeq(s, 1, i - 1)>> \o Split(SubSeq(s, i + 1, Len(s)), c)

Upper == {"A", "B", "C", "D", "E", "F", "G", "H", "I", "J", "K", "L", "M",
          "N", "O", "P", "Q", "R", "S", "T", "U", "V", "W", "X", "Y", "Z"}
Lower == {"a", "b", "c", "d", "e", "f", "g", "h", "i", "j", "k", "l", "m",
          "n", "o", "p", "q", "r", "s", "t", "u", "v", "w", "x", "y", "z"}
Digit == {"0", "1", "2", "3", "4", "5", "6", "7", "8", "9"}

(***************************************************************************)
(* query.rs: Civilization, SortBy and their Display implementations        *)
(***************************************************************************)
Civilization ==
    {"Any", "Abb", "Ayy", "Byz", "Chi", "Del", "Eng", "Fre", "Gol", "Hol",
     "Hre", "Jap", "Jda", "Kte", "Mac", "Mal", "Mon", "Dra", "Ott", "Rus",
     "Sen", "Tug", "Zxl"}

\* a match with two arms sharing one code
Civilization_to_string_dup(c) ==
    CASE c = "Any" -> <<"A", "N", "Y">>
      [] c = "Hol" -> <<"H", "R", "E">>
      [] c = "Hre" -> <<"H", "R", "E">>
      [] c = "Fre" -> <<"F", "R", "E">>
      [] c = "Mon" -> <<"M", "O", "N">>
      [] OTHER     -> <<"A", "B", "B">>

Civilization_to_string(c) ==
    CASE c = "Any" -> <<"A", "N", "Y">>
      [] c = "Abb" -> <<"A", "B", "B">>
      [] c = "Ayy" -> <<"A", "Y", "Y">>
      [] c = "Byz" -> <<"B", "Y", "Z">>
      [] c = "Chi" -> <<"C", "H", "I">>
      [] c = "Del" -> <<"D", "E", "L">>
      [] c = "Eng" -> <<"E", "N", "G">>
      [] c = "Fre" -> <<"F", "R", "E">>
      [] c = "Gol" -> <<"G", "O", "L">>
      [] c = "Hol" -> <<"H", "O", "L">>
      [] c = "Hre" -> <<"H", "R", "E">>
      [] c = "Jap" -> <<"J", "A", "P">>
      [] c = "Jda" -> <<"J", "D", "A">>
      [] c = "Kte" -> <<"K", "T", "E">>
      [] c = "Mac" -> <<"M", "A", "C">>
      [] c = "Mal" -> <<"M", "A", "L">>
      [] c = "Mon" -> <<"M", "O", "N">>
      [] c = "Dra" -> <<"D", "R", "A">>
      [] c = "Ott" -> <<"O", "T", "T">>
      [] c = "Rus" -> <<"R", "U", "S">>
      [] c = "Sen" -> <<"S", "E", "N">>
      [] c = "Tug" -> <<"T", "U", "G">>
      [] c = "Zxl" -> <<"Z", "X", "L">>

SortBy == {"Score", "TimeCreated", "Views", "Likes"}

\* Display written from the variant names instead of the API tokens
SortBy_to_string_variant(o) ==
    CASE o = "Score"       -> <<"s", "c", "o", "r", "e">>
      [] o = "TimeCreated" -> <<"T", "i", "m", "e", "C", "r", "e", "a", "t", "e", "d">>
      [] o = "Views"       -> <<"v", "i", "e", "w", "s">>
      [] o = "Likes"       -> <<"l", "i", "k", "e", "s">>

SortBy_to_string(o) ==
    CASE o = "Score"       -> <<"s", "c", "o", "r", "e">>
      [] o = "TimeCreated" -> <<"t", "i", "m", "e", "C", "r", "e", "a", "t", "e", "d">>
      [] o = "Views"       -> <<"v", "i", "e", "w", "s">>
      [] o = "Likes"       -> <<"l", "i", "k", "e", "s">>

(***************************************************************************)
(* query.rs: Query::from_parts                                             *)
(***************************************************************************)
\* from_parts without the Any arm: every civilization is formatted
from_parts_no_skip(civ, order_by, overlay) ==
    [civ      |-> Some(Civilization_to_string(civ)),
     order_by |-> IF order_by.some THEN Some(SortBy_to_string(order_by.v)) ELSE None,
     overlay  |-> overlay]

from_parts(civ, order_by, overlay) ==
    [civ      |-> IF civ = "Any" THEN None ELSE Some(Civilization_to_string(civ)),
     order_by |-> IF order_by.some THEN Some(SortBy_to_string(order_by.v)) ELSE None,
     overlay  |-> overlay]

\* the predicate with the negation dropped
is_false_identity(b) == b

is_false(b) == ~b

(***************************************************************************)
(* query.rs: #[derive(Serialize)] of Query, as serde_urlencoded writes it. *)
(* Fields go out in declaration order; a field whose skip_serializing_if   *)
(* predicate holds is left out; each remaining field is one name=value     *)
(* pair, pairs joined by '&', names and values form-encoded.               *)
(***************************************************************************)
\* application/x-www-form-urlencoded byte serializer
PercentHex(c) ==
    CASE c = "/" -> <<"%", "2", "F">>
      [] c = "?" -> <<"%", "3", "F">>
      [] c = "#" -> <<"%", "2", "3">>
      [] c = "&" -> <<"%", "2", "6">>
      [] c = "%" -> <<"%", "2", "5">>
      [] c = "=" -> <<"%", "3", "D">>
      [] OTHER   -> <<"%", "?", "?">>

byte_serialize(s) ==
    Concat([i \in 1..Len(s) |->
              IF s[i] \in Upper \cup Lower \cup Digit \cup {"*", "-", ".", "_"}
              THEN <<s[i]>>
              ELSE IF s[i] = " " THEN <<"+">>
              ELSE PercentHex(s[i])])

bool_to_string(b) ==
    IF b THEN <<"t", "r", "u", "e">> ELSE <<"f", "a", "l", "s", "e">>

\* the (name, value) pairs the derive hands to the serializer
Query_fields(q) ==
    (IF q.civ.some THEN <<<< <<"c", "i", "v">>, q.civ.v >>>> ELSE <<>>)
    \o (IF q.order_by.some
        THEN <<<< <<"o", "r", "d", "e", "r", "B", "y">>, q.order_by.v >>>>
        ELSE <<>>)
    \o (IF is_false(q.overlay)
        THEN <<>>
        ELSE <<<< <<"o", "v", "e", "r", "l", "a", "y">>, bool_to_string(q.overlay) >>>>)

\* form_urlencoded::Serializer::append_pair onto the text so far
RECURSIVE append_pairs(_, _)
append_pairs(text, pairs) ==
    IF pairs = <<>> THEN text
    ELSE append_pairs(
            text \o (IF text = <<>> THEN <<>> ELSE <<"&">>)
                 \o byte_serialize(Head(pairs)[1]) \o <<"=">>
                 \o byte_serialize(Head(pairs)[2]),
            Tail(pairs))

Query_serialize(q) == append_pairs(<<>>, Query_fields(q))

(***************************************************************************)
(* Inputs                                                                  *)
(***************************************************************************)
OptSortBy == {None} \cup {Some(o) : o \in SortBy}

QueryArgs == [civ : Civilization, order_by : OptSortBy, overlay : BOOLEAN]

Idle == [op |-> "none"]
NoText == <<>>

(***************************************************************************)
(* SpecQuery: the query encoder as a function of its three inputs          *)
(***************************************************************************)
InitQuery ==
    /\ pc = "args"
    /\ args \in QueryArgs
    /\ query = Idle
    /\ encoded = NoText
    /\ url = Idle
    /\ body = Idle
    /\ outcome = Idle
    /\ nCalls = 0
    /\ nSent = 0

BuildQuery ==
    /\ pc = "args"
    /\ query' = from_parts(args.civ, args.order_by, args.overlay)
    /\ pc' = "built"
    /\ UNCHANGED <<args, encoded, url, body, outcome, nCalls, nSent>>

EncodeQuery ==
    /\ pc = "built"
    /\ encoded' = Query_serialize(query)
    /\ pc' = "encoded"
    /\ UNCHANGED <<args, query, url, body, outcome, nCalls, nSent>>

NextQuery == BuildQuery \/ EncodeQuery

SpecQuery == InitQuery /\ [][NextQuery]_vars

(***************************************************************************)
(* JSON values, as serde_json hands them to a Deserialize implementation.  *)
(* A number is an integer n, or n + 1/2 when frac is set; an object is a   *)
(* function from the keys it holds to their values.                        *)
(***************************************************************************)
JNull == [t |-> "null"]
JBool(b) == [t |-> "bool", b |-> b]
JNum(n) == [t |-> "num", n |-> n, frac |-> FALSE]
JFrac(n) == [t |-> "num", n |-> n, frac |-> TRUE]
JStr(s) == [t |-> "str", s |-> s]
JArr(a) == [t |-> "arr", a |-> a]
JObj(o) == [t |-> "obj", o |-> o]

EmptyObj == JObj([k \in {} |-> JNull])

\* the object j without key k / with key k set to v
Without(j, k) == JObj([x \in (DOMAIN j.o) \ {k} |-> j.o[x]])
With(j, k, v) == JObj([x \in (DOMAIN j.o) \cup {k} |-> IF x = k THEN v ELSE j.o[x]])

(***************************************************************************)
(* types.rs: the response schema. Each struct is the sequence of its       *)
(* fields in declaration order: the JSON key (after #[serde(rename)]),     *)
(* the Rust field name and the field's type.                               *)
(***************************************************************************)
TString == [k |-> "String"]
TI64 == [k |-> "i64"]
TU8 == [k |-> "u8"]
TF64 == [k |-> "f64"]
TBool == [k |-> "bool"]
TOption(ty) == [k |-> "Option", of |-> ty]
TVec(ty) == [k |-> "Vec", of |-> ty]
TStruct(name) == [k |-> "struct", name |-> name]

Field(key, name, ty) == [key |-> key, name |-> name, ty |-> ty]

U8_MAX == 255

Status == <<Field("status", "status", TString)>>

Timestamp ==
    <<Field("_seconds", "seconds", TI64),
      Field("_nanoseconds", "nanoseconds", TI64)>>

\* food declared as a number instead of a string
DetailStep_food_number ==
    <<Field("villagers", "villagers", TOption(TString)),
      Field("builders", "builders", TOption(TString)),
      Field("food", "food", TOption(TI64)),
      Field("wood", "wood", TOption(TString)),
      Field("stone", "stone", TOption(TString)),
      Field("gold", "gold", TOption(TString)),
      Field("time", "time", TOption(TString)),
      Field("description", "description", TOption(TString))>>

DetailStep ==
    <<Field("villagers", "villagers", TOption(TString)),
      Field("builders", "builders", TOption(TString)),
      Field("food", "food", TOption(TString)),
      Field("wood", "wood", TOption(TString)),
      Field("stone", "stone", TOption(TString)),
      Field("gold", "gold", TOption(TString)),
      Field("time", "time", TOption(TString)),
      Field("description", "description", TOption(TString))>>

BuildOrderStep ==
    <<Field("gameplan", "gameplan", TOption(TString)),
      Field("age", "age", TOption(TU8)),
      Field("type", "step_type", TOption(TString)),
      Field("steps", "steps", TOption(TVec(TStruct("DetailStep"))))>>

BuildOrderFields(author_uid_ty, is_draft_ty) ==
    <<Field("id", "id", TOption(TString)),
      Field("title", "title", TOption(TString)),
      Field("description", "description", TOption(TString)),
      Field("video", "video", TOption(TString)),
      Field("author", "author", TOption(TString)),
      Field("authorUid", "author_uid", author_uid_ty),
      Field("civ", "civ", TOption(TString)),
      Field("comments", "comments", TOption(TI64)),
      Field("likes", "likes", TOption(TI64)),
      Field("map", "map", TOption(TString)),
      Field("season", "season", TOption(TString)),
      Field("score", "score", TF64),
      Field("scoreAllTime", "score_all_time", TF64),
      Field("sortTitle", "sort_title", TString),
      Field("steps", "steps", TVec(TStruct("BuildOrderStep"))),
      Field("strategy", "strategy", TOption(TString)),
      Field("timeCreated", "time_created", TStruct("Timestamp")),
      Field("timeUpdated", "time_updated", TStruct("Timestamp")),
      Field("upvotes", "upvotes", TOption(TI64)),
      Field("views", "views", TI64),
      Field("isDraft", "is_draft", is_draft_ty)>>

\* author_uid declared Option<String>
BuildOrder_author_uid_optional == BuildOrderFields(TOption(TString), TOption(TBool))

\* is_draft declared bool
BuildOrder_is_draft_bool == BuildOrderFields(TString, TBool)

BuildOrder == BuildOrderFields(TString, TOption(TBool))

BuildOrders == TVec(TStruct("BuildOrder"))

StructFields(name) ==
    CASE name = "Status"         -> Status
      [] name = "Timestamp"      -> Timestamp
      [] name = "DetailStep"     -> DetailStep
      [] name = "BuildOrderStep" -> BuildOrderStep
      [] name = "BuildOrder"     -> BuildOrder

(***************************************************************************)
(* #[derive(Deserialize)] over serde_json.                                 *)
(*   String, bool: the JSON value of that type, nothing else.              *)
(*   i64, u8: a JSON integer in range; a number with a fraction is an      *)
(*            invalid type.  f64: any JSON number.                         *)
(*   Option<T>: null is None, anything else is Some of T's decoding.       *)
(*   Vec<T>: a JSON array, element by element; the first failing element   *)
(*           fails the whole.                                              *)
(*   struct: a JSON object, each field looked up by key; a missing key is  *)
(*           None for an Option field and an error for any other; unknown  *)
(*           keys are ignored.  A JSON array is taken positionally and     *)
(*           must hold exactly one element per field.                      *)
(***************************************************************************)
Ok(x) == [ok |-> TRUE, val |-> x]
Err == [ok |-> FALSE]

AllOk(rs) == \A i \in 1..Len(rs) : rs[i].ok

\* the decoded struct: Rust field name -> value
StructOf(fs, rs) ==
    [n \in {fs[i].name : i \in 1..Len(fs)} |->
        rs[CHOOSE i \in 1..Len(fs) : fs[i].name = n].val]

RECURSIVE Deserialize(_, _)
Deserialize(ty, j) ==
    CASE ty.k = "String" -> IF j.t = "str" THEN Ok(j.s) ELSE Err
      [] ty.k = "bool"   -> IF j.t = "bool" THEN Ok(j.b) ELSE Err
      [] ty.k = "i64"    -> IF j.t = "num" /\ ~j.frac THEN Ok(j.n) ELSE Err
      [] ty.k = "u8"     ->
            IF j.t = "num" /\ ~j.frac /\ j.n >= 0 /\ j.n <= U8_MAX
            THEN Ok(j.n) ELSE Err
      [] ty.k = "f64"    ->
            IF j.t = "num" THEN Ok([n |-> j.n, frac |-> j.frac]) ELSE Err
      [] ty.k = "Option" ->
            IF j.t = "null" THEN Ok(None)
            ELSE LET r == Deserialize(ty.of, j)
                 IN  IF r.ok THEN Ok(Some(r.val)) ELSE Err
      [] ty.k = "Vec"    ->
            IF j.t = "arr"
            THEN LET rs == [i \in 1..Len(j.a) |-> Deserialize(ty.of, j.a[i])]
                 IN  IF AllOk(rs) THEN Ok([i \in 1..Len(rs) |-> rs[i].val]) ELSE Err
            ELSE Err
      [] ty.k = "struct" ->
            LET fs == StructFields(ty.name)
            IN  IF j.t = "obj"
                THEN LET rs == [i \in 1..Len(fs) |->
                                  IF fs[i].key \in DOMAIN j.o
                                  THEN Deserialize(fs[i].ty, j.o[fs[i].key])
                                  ELSE IF fs[i].ty.k = "Option" THEN Ok(None)
                                  ELSE Err]
                     IN  IF AllOk(rs) THEN Ok(StructOf(fs, rs)) ELSE Err
                ELSE IF j.t = "arr" /\ Len(j.a) = Len(fs)
                THEN LET rs == [i \in 1..Len(fs) |-> Deserialize(fs[i].ty, j.a[i])]
                     IN  IF AllOk(rs) THEN Ok(StructOf(fs, rs)) ELSE Err
                ELSE Err

(***************************************************************************)
(* Documents to decode                                                     *)
(***************************************************************************)
MaxList == 2      \* longest array of build orders
MaxSteps == 2     \* longest array of steps
MaxDetails == 2   \* longest array of detail steps

\* all sequences over S of length at most n
SeqsUpTo(S, n) == UNION {[1..m -> S] : m \in 0..n}

\* one JSON value of each type, for putting the wrong type in a field
JSamples ==
    {JNull, JBool(TRUE), JNum(5), JNum(256), JNum(0 - 1), JFrac(2), JStr("5"),
     JArr(<<>>), EmptyObj}

DetailFoodTime == JObj([food |-> JStr("5"), time |-> JStr("2:30")])
DetailVillagers == JObj([villagers |-> JStr("6"), description |-> JStr("House")])
DetailFoodNumber == JObj([food |-> JNum(5), time |-> JStr("2:30")])

ValidDetails == {DetailFoodTime, DetailVillagers, EmptyObj}
DetailSamples == ValidDetails \cup {DetailFoodNumber, JNum(1)}

StepOf(details) ==
    JObj([gameplan |-> JStr("rush"), age |-> JNum(1), type |-> JStr("age"),
          steps |-> JArr(details)])
StepAgeString == JObj([age |-> JStr("1")])
StepAgeUp == JObj([age |-> JNum(2), type |-> JStr("ageUp"), steps |-> JNull])

\* steps to put in sequences: well formed and malformed ones
StepSamples ==
    {StepOf(<<DetailFoodTime, DetailVillagers>>), StepOf(<<DetailFoodNumber>>),
     StepAgeString, StepAgeUp, EmptyObj, JStr("x")}

\* a small set of steps for use inside lists of build orders
FewSteps ==
    {StepOf(<<DetailFoodTime, DetailVillagers>>), StepOf(<<DetailFoodNumber>>),
     StepAgeString, StepAgeUp}

TimestampOf(sec) == JObj([_seconds |-> JNum(sec), _nanoseconds |-> JNum(0)])

\* every mandatory field and nothing else
MinimalBuild(uid, steps) ==
    JObj([authorUid    |-> JStr(uid),
          score        |-> JFrac(1),
          scoreAllTime |-> JNum(3),
          sortTitle    |-> JStr("t"),
          steps        |-> JArr(steps),
          timeCreated  |-> TimestampOf(100),
          timeUpdated  |-> TimestampOf(200),
          views        |-> JNum(7)])

\* every field
FullBuild(uid, steps) ==
    JObj([id           |-> JStr("00I7"),
          title        |-> JStr("Fast castle"),
          description  |-> JStr("d"),
          video        |-> JStr("v"),
          author       |-> JStr("a"),
          authorUid    |-> JStr(uid),
          civ          |-> JStr("FRE"),
          comments     |-> JNum(0),
          likes        |-> JNum(2),
          map          |-> JStr("m"),
          season       |-> JStr("s"),
          score        |-> JFrac(1),
          scoreAllTime |-> JNum(3),
          sortTitle    |-> JStr("t"),
          steps        |-> JArr(steps),
          strategy     |-> JStr("rush"),
          timeCreated  |-> TimestampOf(100),
          timeUpdated  |-> TimestampOf(200),
          upvotes      |-> JNum(1),
          views        |-> JNum(7),
          isDraft      |-> JBool(FALSE)])

MandatoryKeys ==
    {"authorUid", "score", "scoreAllTime", "sortTitle", "steps", "timeCreated",
     "timeUpdated", "views"}
OptionalKeys ==
    {"id", "title", "description", "video", "author", "civ", "comments", "likes",
     "map", "season", "strategy", "upvotes", "isDraft"}
TimestampKeys == {"_seconds", "_nanoseconds"}

\* the minimal build order with some optional keys present and null
NullsBuild(nulls) ==
    LET m == MinimalBuild("u1", <<>>)
    IN  JObj([k \in (DOMAIN m.o) \cup nulls |-> IF k \in nulls THEN JNull ELSE m.o[k]])

\* one key of a build order removed or given another value
PerturbedBuilds(b) ==
    {Without(b, k) : k \in MandatoryKeys \cup OptionalKeys}
        \cup {With(b, k, v) : k \in MandatoryKeys \cup OptionalKeys, v \in JSamples}

\* one key of one timestamp removed or given another value
PerturbedTimestamps(b) ==
    {With(b, tk, Without(b.o[tk], k)) :
        tk \in {"timeCreated", "timeUpdated"}, k \in TimestampKeys}
        \cup {With(b, tk, With(b.o[tk], k, v)) :
                tk \in {"timeCreated", "timeUpdated"}, k \in TimestampKeys,
                v \in JSamples}

BuildDocs ==
    {NullsBuild(ns) : ns \in SUBSET OptionalKeys}
        \cup PerturbedBuilds(MinimalBuild("u1", <<>>))
        \cup PerturbedBuilds(FullBuild("u1", <<StepAgeUp>>))
        \cup PerturbedTimestamps(MinimalBuild("u1", <<>>))
        \cup {MinimalBuild("u1", ss) : ss \in SeqsUpTo(StepSamples, MaxSteps)}
        \cup {MinimalBuild("u1", <<StepOf(ds)>>) :
                ds \in SeqsUpTo(DetailSamples, MaxDetails)}
        \cup {JNull, JStr("x"), JArr(<<>>)}

\* build orders to put in lists: told apart by authorUid
ListElements ==
    {MinimalBuild("u1", <<>>), MinimalBuild("u2", <<>>),
     Without(MinimalBuild("u3", <<>>), "authorUid"), JNull}
        \cup {FullBuild("u4", <<st>>) : st \in FewSteps}

\* ten valid build orders, the most the server returns
TenBuilds ==
    <<MinimalBuild("u1", <<>>), MinimalBuild("u2", <<>>), MinimalBuild("u3", <<>>),
      MinimalBuild("u4", <<>>), MinimalBuild("u5", <<>>), MinimalBuild("u6", <<>>),
      MinimalBuild("u7", <<>>), MinimalBuild("u8", <<>>), MinimalBuild("u9", <<>>),
      MinimalBuild("u10", <<>>)>>

ListDocs ==
    {JArr(bs) : bs \in SeqsUpTo(ListElements, MaxList)}
        \cup {JArr(TenBuilds), JNull, EmptyObj}

StatusDocs ==
    {JObj([status |-> JStr("running")]), JObj([status |-> JStr("down")]),
     JObj([status |-> JNum(1)]), JObj([status |-> JNull]), EmptyObj,
     JArr(<<JStr("running")>>), JStr("running")}

DocsFor(target) ==
    CASE target = "Status"      -> StatusDocs
      [] target = "BuildOrder"  -> BuildDocs
      [] target = "BuildOrders" -> ListDocs

TypeOf(target) ==
    IF target = "BuildOrders" THEN BuildOrders ELSE TStruct(target)

(***************************************************************************)
(* SpecDecode: the response schema as a function of the document           *)
(***************************************************************************)
InitDecode ==
    /\ pc = "body"
    /\ \E target \in {"Status", "BuildOrder", "BuildOrders"} :
          /\ args = [target |-> target]
          /\ body \in DocsFor(target)
    /\ query = Idle
    /\ encoded = NoText
    /\ url = Idle
    /\ outcome = Idle
    /\ nCalls = 0
    /\ nSent = 0

\* serde_json::from_slice::<T> on the document
Decode ==
    /\ pc = "body"
    /\ outcome' = Deserialize(TypeOf(args.target), body)
    /\ pc' = "decoded"
    /\ UNCHANGED <<args, query, encoded, url, body, nCalls, nSent>>

NextDecode == Decode

SpecDecode == InitDecode /\ [][NextDecode]_vars

(***************************************************************************)
(* client.rs: the URL of a request.  format! writes BASE_URI, the route    *)
(* and the identifier into one text; reqwest parses that text as a URL     *)
(* (scheme, host, path segments, query, fragment) and RequestBuilder::query*)
(* appends the pairs of the Query to whatever query the URL already has.   *)
(***************************************************************************)
BASE_URI ==
    <<"h", "t", "t", "p", "s", ":", "/", "/", "a", "o", "e", "4", "g", "u", "i",
      "d", "e", "s", ".", "c", "o", "m", "/", "a", "p", "i">>

RouteStatus == <<"/", "s", "t", "a", "t", "u", "s">>
RouteBuilds == <<"/", "b", "u", "i", "l", "d", "s">>
RouteFavorites == <<"/", "f", "a", "v", "o", "r", "i", "t", "e", "s">>

\* percent-encoding the URL parser applies to what it keeps
Url_encode(s) ==
    Concat([i \in 1..Len(s) |-> IF s[i] = " " THEN <<"%", "2", "0">> ELSE <<s[i]>>])

IsSingleDot(seg) ==
    seg \in {<<".">>, <<"%", "2", "e">>, <<"%", "2", "E">>}

IsDoubleDot(seg) ==
    \E a, b \in {<<".">>, <<"%", "2", "e">>, <<"%", "2", "E">>} : seg = a \o b

\* path segments with "." and ".." resolved
RECURSIVE Url_segments(_, _, _)
Url_segments(segs, i, acc) ==
    IF i > Len(segs) THEN acc
    ELSE IF IsDoubleDot(segs[i])
    THEN Url_segments(segs, i + 1,
            (IF acc = <<>> THEN <<>> ELSE SubSeq(acc, 1, Len(acc) - 1))
                \o (IF i = Len(segs) THEN << <<>> >> ELSE <<>>))
    ELSE IF IsSingleDot(segs[i])
    THEN Url_segments(segs, i + 1, acc \o (IF i = Len(segs) THEN << <<>> >> ELSE <<>>))
    ELSE Url_segments(segs, i + 1, Append(acc, Url_encode(segs[i])))

Url_parse(text) ==
    LET c      == FirstOf(text, {":"}, 1)
        rest   == SubSeq(text, c + 3, Len(text))
        h      == FirstOf(rest, {"/", "?", "#"}, 1)
        tail   == SubSeq(rest, h, Len(rest))
        f      == FirstOf(tail, {"#"}, 1)
        front  == SubSeq(tail, 1, f - 1)
        q      == FirstOf(front, {"?"}, 1)
        path   == SubSeq(front, 1, q - 1)
    IN  [scheme   |-> SubSeq(text, 1, c - 1),
         host     |-> SubSeq(rest, 1, h - 1),
         path     |-> IF path = <<>> THEN << <<>> >>
                      ELSE Url_segments(Split(Tail(path), "/"), 1, <<>>),
         query    |-> IF q > Len(front) THEN None
                      ELSE Some(Url_encode(SubSeq(front, q + 1, Len(front)))),
         fragment |-> IF f > Len(tail) THEN None
                      ELSE Some(Url_encode(SubSeq(tail, f + 1, Len(tail))))]

\* RequestBuilder::query: the pairs go after the query already there; a
\* query left empty is removed
RequestBuilder_query(u, q) ==
    LET text == append_pairs(IF u.query.some THEN u.query.v ELSE <<>>, Query_fields(q))
    IN  [u EXCEPT !.query = IF text = <<>> THEN None ELSE Some(text)]

(***************************************************************************)
(* Inputs of the client                                                    *)
(***************************************************************************)
MaxCalls == 2     \* endpoint calls made on one client
MaxIdLen == 2     \* longest identifier drawn from IdChars

IdChars == {"a", "/", "?", "#", "&", "=", "%", ".", " "}

\* identifiers as the API assigns them, and identifiers carrying URL syntax
SampleIds ==
    {<<"0", "0", "I", "7", "J", "4", "7", "d", "v", "2", "6", "c", "P", "b", "K",
       "m", "X", "Y", "k", "O">>,
     <<"x", "?", "c", "i", "v", "=", "F", "R", "E">>,
     <<"x", "?", "o", "r", "d", "e", "r", "B", "y", "=", "l", "i", "k", "e", "s">>,
     <<".", ".", "/", "s", "t", "a", "t", "u", "s">>}

Ids == SeqsUpTo(IdChars, MaxIdLen) \cup SampleIds

\* the filters get_favorites is called with
FewArgs ==
    [civ : {"Any", "Mon"}, order_by : {None, Some("Score")}, overlay : BOOLEAN]

\* what the transport can hand back for a request
ClientDocs(op) ==
    CASE op = "get_status" -> StatusDocs
      [] op = "get_build"  ->
            {MinimalBuild("u1", <<>>),
             FullBuild("u1", <<StepOf(<<DetailFoodTime, DetailVillagers>>)>>),
             FullBuild("u1", <<StepAgeString>>)}
                \cup {Without(MinimalBuild("u1", <<>>), k) : k \in MandatoryKeys}
                \cup {Without(FullBuild("u1", <<StepAgeUp>>), k) : k \in MandatoryKeys}
                \cup {With(MinimalBuild("u1", <<>>), tk,
                           Without(TimestampOf(100), k)) :
                        tk \in {"timeCreated", "timeUpdated"}, k \in TimestampKeys}
      [] OTHER ->
            {JArr(<<>>),
             JArr(<<MinimalBuild("u1", <<>>)>>),
             JArr(<<MinimalBuild("u2", <<>>), MinimalBuild("u1", <<>>)>>),
             JArr(TenBuilds),
             JArr(<<MinimalBuild("u1", <<>>),
                    Without(MinimalBuild("u2", <<>>), "authorUid")>>),
             JArr(<<Without(FullBuild("u1", <<>>), "views"),
                    MinimalBuild("u2", <<>>)>>),
             EmptyObj}

Bodies(op) ==
    {[kind |-> "json", doc |-> d] : d \in ClientDocs(op)}
        \cup {[kind |-> "not_json"], [kind |-> "read_error"]}

ResponseType(op) ==
    CASE op = "get_status" -> TStruct("Status")
      [] op = "get_build"  -> TStruct("BuildOrder")
      [] OTHER             -> BuildOrders

\* Result<T, reqwest::Error>: the error keeps the kind of failure
Failed(kind) == [ok |-> FALSE, err |-> kind]

(***************************************************************************)
(* client.rs: the four endpoint calls.  Each builds its request and hands  *)
(* it to the transport (send); the call then ends with the transport's     *)
(* error, or reads the body as JSON of the endpoint's type.                *)
(***************************************************************************)
Init ==
    /\ pc = "idle"
    /\ args = Idle
    /\ query = Idle
    /\ encoded = NoText
    /\ url = Idle
    /\ body = Idle
    /\ outcome = Idle
    /\ nCalls = 0
    /\ nSent = 0

\* Each endpoint method builds its URL and Query and hands one request to the
\* transport: http.get(url).query(&query).send()
get_status ==
    /\ pc = "idle"
    /\ nCalls < MaxCalls
    /\ args' = [op |-> "get_status"]
    /\ query' = Idle
    /\ url' = Url_parse(BASE_URI \o RouteStatus)
    /\ pc' = "sent"
    /\ nCalls' = nCalls + 1
    /\ nSent' = nSent + 1
    /\ body' = Idle
    /\ outcome' = Idle
    /\ UNCHANGED encoded

get_builds ==
    /\ pc = "idle"
    /\ nCalls < MaxCalls
    /\ \E a \in QueryArgs :
          LET q == from_parts(a.civ, a.order_by, a.overlay)
          IN  /\ args' = [op |-> "get_builds", civ |-> a.civ,
                          order_by |-> a.order_by, overlay |-> a.overlay]
              /\ query' = q
              /\ url' = RequestBuilder_query(Url_parse(BASE_URI \o RouteBuilds), q)
    /\ pc' = "sent"
    /\ nCalls' = nCalls + 1
    /\ nSent' = nSent + 1
    /\ body' = Idle
    /\ outcome' = Idle
    /\ UNCHANGED encoded

get_build ==
    /\ pc = "idle"
    /\ nCalls < MaxCalls
    /\ \E build_id \in Ids, overlay \in BOOLEAN :
          LET q == from_parts("Any", None, overlay)
          IN  /\ args' = [op |-> "get_build", build_id |-> build_id,
                          overlay |-> overlay]
              /\ query' = q
              /\ url' = RequestBuilder_query(
                          Url_parse(BASE_URI \o RouteBuilds \o <<"/">> \o build_id), q)
    /\ pc' = "sent"
    /\ nCalls' = nCalls + 1
    /\ nSent' = nSent + 1
    /\ body' = Idle
    /\ outcome' = Idle
    /\ UNCHANGED encoded

get_favorites ==
    /\ pc = "idle"
    /\ nCalls < MaxCalls
    /\ \E user_id \in Ids, a \in FewArgs :
          LET q == from_parts(a.civ, a.order_by, a.overlay)
          IN  /\ args' = [op |-> "get_favorites", user_id |-> user_id,
                          civ |-> a.civ, order_by |-> a.order_by,
                          overlay |-> a.overlay]
              /\ query' = q
              /\ url' = RequestBuilder_query(
                          Url_parse(BASE_URI \o RouteFavorites \o <<"/">> \o user_id), q)
    /\ pc' = "sent"
    /\ nCalls' = nCalls + 1
    /\ nSent' = nSent + 1
    /\ body' = Idle
    /\ outcome' = Idle
    /\ UNCHANGED encoded

\* a transport failure answered by sending the request again
SendError_retry ==
    /\ pc = "sent"
    /\ nSent' = nSent + 1
    /\ UNCHANGED <<pc, args, query, encoded, url, body, outcome, nCalls>>

\* send().await? with the transport failing: the call returns its error
SendError ==
    /\ pc = "sent"
    /\ pc' = "idle"
    /\ args' = [op |-> args.op]
    /\ query' = Idle
    /\ url' = Idle
    /\ body' = [kind |-> "send_error"]
    /\ outcome' = Failed("request")
    /\ UNCHANGED <<encoded, nCalls, nSent>>

\* send().await? with a response: the request is gone, the body is to read
SendOk ==
    /\ pc = "sent"
    /\ \E b \in Bodies(args.op) : body' = b
    /\ pc' = "received"
    /\ args' = [op |-> args.op]
    /\ query' = Idle
    /\ url' = Idle
    /\ UNCHANGED <<encoded, outcome, nCalls, nSent>>

\* what .json::<T>() makes of a body
json(ty, b) ==
    IF b.kind = "read_error" THEN Failed("body")
    ELSE IF b.kind = "not_json" THEN Failed("decode")
    ELSE LET r == Deserialize(ty, b.doc)
         IN  IF r.ok THEN r ELSE Failed("decode")

\* .json::<T>().await: the call returns the decoded value or the error
Json ==
    /\ pc = "received"
    /\ outcome' = json(ResponseType(args.op), body)
    /\ pc' = "idle"
    /\ UNCHANGED <<args, query, encoded, url, body, nCalls, nSent>>

Next ==
    \/ get_status
    \/ get_builds
    \/ get_build
    \/ get_favorites
    \/ SendError
    \/ SendOk
    \/ Json

Spec == Init /\ [][Next]_vars

(***************************************************************************)
(* Reading an encoded query back: the (name, value) pairs a form parser    *)
(* finds in the text, and the values carried under one name.               *)
(***************************************************************************)
PairOf(piece) ==
    LET i == FirstOf(piece, {"="}, 1)
    IN  <<SubSeq(piece, 1, i - 1), SubSeq(piece, i + 1, Len(piece))>>

ParsePairs(text) ==
    IF text = <<>> THEN <<>>
    ELSE LET pieces == Split(text, "&")
         IN  [i \in 1..Len(pieces) |-> PairOf(pieces[i])]

ParamValues(text, name) ==
    LET ps == ParsePairs(text)
    IN  SelectSeq([i \in 1..Len(ps) |-> ps[i]], LAMBDA p : p[1] = name)

ValuesOf(text, name) ==
    LET ps == ParamValues(text, name) IN [i \in 1..Len(ps) |-> ps[i][2]]

ParamNames(text) ==
    LET ps == ParsePairs(text) IN {ps[i][1] : i \in 1..Len(ps)}

NameCiv == <<"c", "i", "v">>
NameOrderBy == <<"o", "r", "d", "e", "r", "B", "y">>
NameOverlay == <<"o", "v", "e", "r", "l", "a", "y">>
TextTrue == <<"t", "r", "u", "e">>
TextFalse == <<"f", "a", "l", "s", "e">>

C2_OverlayIffTrue ==
    pc = "encoded" =>
        LET vs == ValuesOf(encoded, NameOverlay)
        IN  /\ (NameOverlay \in ParamNames(encoded)) <=> args.overlay
            /\ args.overlay => vs = <<TextTrue>>
            /\ \A i \in 1..Len(vs) : vs[i] # TextFalse
            /\ (args.civ = "Any" /\ ~args.order_by.some /\ ~args.overlay)
                  => encoded = <<>>

C2_Witness ==
    /\ pc = "encoded"
    /\ args.overlay
    /\ args.civ = "Any"
    /\ ~args.order_by.some
    /\ encoded = NameOverlay \o <<"=">> \o TextTrue

\* C3: the encoded query carries "orderBy" iff a sort criterion was given,
\* with the criterion's token as value: score, timeCreated, views, likes.
C3_OrderByIffSome ==
    pc = "encoded" =>
        LET vs == ValuesOf(encoded, NameOrderBy)
            o  == args.order_by
        IN  /\ (NameOrderBy \in ParamNames(encoded)) <=> o.some
            /\ ~o.some => vs = <<>>
            /\ o.some => Len(vs) = 1
            /\ (o.some /\ o.v = "Score") =>
                  vs[1] = <<"s", "c", "o", "r", "e">>
            /\ (o.some /\ o.v = "TimeCreated") =>
                  vs[1] = <<"t", "i", "m", "e", "C", "r", "e", "a", "t", "e", "d">>
            /\ (o.some /\ o.v = "Views") =>
                  vs[1] = <<"v", "i", "e", "w", "s">>
            /\ (o.some /\ o.v = "Likes") =>
                  vs[1] = <<"l", "i", "k", "e", "s">>

C3_Witness ==
    /\ pc = "encoded"
    /\ args.order_by = Some("TimeCreated")
    /\ ValuesOf(encoded, NameOrderBy) =
          << <<"t", "i", "m", "e", "C", "r", "e", "a", "t", "e", "d">> >>

NamedCivilizations == Civilization \ {"Any"}

IsCode(s) == Len(s) = 3 /\ \A i \in 1..Len(s) : s[i] \in Upper

CodesWellFormed ==
    /\ "Any" \in Civilization
    /\ \A c \in NamedCivilizations : IsCode(Civilization_to_string(c))
    /\ \A c, d \in NamedCivilizations :
          c # d => Civilization_to_string(c) # Civilization_to_string(d)
    /\ (pc = "encoded" /\ args.civ # "Any") =>
          /\ Len(ValuesOf(encoded, NameCiv)) = 1
          /\ IsCode(ValuesOf(encoded, NameCiv)[1])

\* C4 as stated: 23 named civilizations plus Any, each named one with a
\* code of three uppercase letters, distinct variants having distinct codes.
C4_Original ==
    /\ Cardinality(NamedCivilizations) = 23
    /\ CodesWellFormed

\* C4 as amended: 22 named civilizations plus Any (23 variants in all), each
\* named one with a code of three uppercase letters, distinct variants
\* having distinct codes.
C4_Amended ==
    /\ Cardinality(NamedCivilizations) = 22
    /\ Cardinality(Civilization) = 23
    /\ CodesWellFormed

C4_Witness ==
    /\ pc = "encoded"
    /\ args.civ = "Zxl"
    /\ ValuesOf(encoded, NameCiv) = << <<"Z", "X", "L">> >>

(***************************************************************************)
(* What the API documents of a build order, restated on the JSON document  *)
(* itself (not through the schema tables).                                 *)
(***************************************************************************)
IsInt(j) == j.t = "num" /\ ~j.frac

IsTimestampDoc(j) ==
    /\ j.t = "obj"
    /\ TimestampKeys \subseteq DOMAIN j.o
    /\ IsInt(j.o["_seconds"])
    /\ IsInt(j.o["_nanoseconds"])

MandatoryTyped(j) ==
    /\ j.t = "obj"
    /\ MandatoryKeys \subseteq DOMAIN j.o
    /\ j.o["authorUid"].t = "str"
    /\ j.o["score"].t = "num"
    /\ j.o["scoreAllTime"].t = "num"
    /\ j.o["sortTitle"].t = "str"
    /\ j.o["steps"].t = "arr"
    /\ IsTimestampDoc(j.o["timeCreated"])
    /\ IsTimestampDoc(j.o["timeUpdated"])
    /\ IsInt(j.o["views"])

OptionalAbsentOrNull(j) ==
    \A k \in OptionalKeys : k \in DOMAIN j.o => j.o[k].t = "null"

OptionalTyped(j) ==
    \A k \in OptionalKeys \cap DOMAIN j.o :
        \/ j.o[k].t = "null"
        \/ k \in {"comments", "likes", "upvotes"} /\ IsInt(j.o[k])
        \/ k = "isDraft" /\ j.o[k].t = "bool"
        \/ k \notin {"comments", "likes", "upvotes", "isDraft"} /\ j.o[k].t = "str"

OptionalNames ==
    {"id", "title", "description", "video", "author", "civ", "comments", "likes",
     "map", "season", "strategy", "upvotes", "is_draft"}

\* an element no reading of the schema accepts
BadDetail(d) ==
    \/ d.t \notin {"obj", "arr"}
    \/ d.t = "obj" /\ "food" \in DOMAIN d.o /\ d.o["food"].t = "num"

BadStep(st) ==
    \/ st.t \notin {"obj", "arr"}
    \/ /\ st.t = "obj"
       /\ \/ "age" \in DOMAIN st.o /\ st.o["age"].t = "str"
          \/ /\ "steps" \in DOMAIN st.o
             /\ st.o["steps"].t = "arr"
             /\ \E i \in 1..Len(st.o["steps"].a) : BadDetail(st.o["steps"].a[i])

BadBuild(b) ==
    \/ b.t \notin {"obj", "arr"}
    \/ /\ b.t = "obj"
       /\ \/ "authorUid" \notin DOMAIN b.o
          \/ /\ "steps" \in DOMAIN b.o
             /\ b.o["steps"].t = "arr"
             /\ \E i \in 1..Len(b.o["steps"].a) : BadStep(b.o["steps"].a[i])

GoodBuild(b) == MandatoryTyped(b) /\ OptionalTyped(b) /\ ~BadBuild(b)

\* the decoded build order keeps the document's steps and detail steps, one
\* for one and in order
StepsKept(b, val) ==
    /\ Len(val.steps) = Len(b.o["steps"].a)
    /\ \A i \in 1..Len(val.steps) :
          LET st == b.o["steps"].a[i]
          IN  (st.t = "obj" /\ "steps" \in DOMAIN st.o /\ st.o["steps"].t = "arr") =>
                  /\ val.steps[i].steps.some
                  /\ Len(val.steps[i].steps.v) = Len(st.o["steps"].a)
                  /\ \A n \in 1..Len(st.o["steps"].a) :
                        LET d == st.o["steps"].a[n]
                        IN  (d.t = "obj" /\ "food" \in DOMAIN d.o /\ d.o["food"].t = "str")
                               => val.steps[i].steps.v[n].food = Some(d.o["food"].s)

(***************************************************************************)
(* Claims on the response schema (SpecDecode)                              *)
(***************************************************************************)
\* C5: a build-order object holding every mandatory field (steps = []) and
\* omitting, or setting to null, every optional field decodes, and every
\* optional field of the result is None; isDraft is None, not Some(false).
C5_OptionalsAbsent ==
    (/\ pc = "decoded"
     /\ args.target = "BuildOrder"
     /\ MandatoryTyped(body)
     /\ body.o["steps"] = JArr(<<>>)
     /\ OptionalAbsentOrNull(body))
        => /\ outcome.ok
           /\ \A n \in OptionalNames : ~outcome.val[n].some
           /\ outcome.val.is_draft = None
           /\ outcome.val.author_uid = body.o["authorUid"].s
           /\ outcome.val.steps = <<>>

C5_Witness ==
    /\ pc = "decoded"
    /\ args.target = "BuildOrder"
    /\ body = NullsBuild({"isDraft", "title"})
    /\ outcome.ok
    /\ ~outcome.val.is_draft.some
    /\ ~outcome.val.id.some

\* C7: decoding a list of build orders, a build order's steps or a step's
\* detail steps, one malformed element (a number for DetailStep.food, a
\* string for BuildOrderStep.age, a build order without authorUid, ...)
\* fails the whole decode; a decode that succeeds keeps every element, in
\* the order of the source array, and a list of valid elements decodes.
C7_NoPartialLists ==
    pc = "decoded" =>
        /\ (args.target = "BuildOrders" /\ body.t = "arr") =>
              /\ (\E i \in 1..Len(body.a) : BadBuild(body.a[i])) => ~outcome.ok
              /\ (\A i \in 1..Len(body.a) : GoodBuild(body.a[i])) => outcome.ok
              /\ outcome.ok =>
                    /\ Len(outcome.val) = Len(body.a)
                    /\ \A i \in 1..Len(body.a) :
                          body.a[i].t = "obj" =>
                              /\ outcome.val[i].author_uid = body.a[i].o["authorUid"].s
                              /\ StepsKept(body.a[i], outcome.val[i])
        /\ (args.target = "BuildOrder" /\ body.t = "obj") =>
              /\ BadBuild(body) => ~outcome.ok
              /\ GoodBuild(body) => outcome.ok
              /\ outcome.ok => StepsKept(body, outcome.val)

C7_Witness ==
    /\ pc = "decoded"
    /\ args.target = "BuildOrders"
    /\ body = JArr(<<MinimalBuild("u2", <<>>),
                     FullBuild("u4", <<StepOf(<<DetailFoodNumber>>)>>)>>)
    /\ ~outcome.ok

\* a list of ten valid build orders decodes to ten, in order
TenBuildsReached ==
    /\ pc = "decoded"
    /\ body = JArr(TenBuilds)
    /\ outcome.ok
    /\ Len(outcome.val) = 10
    /\ outcome.val[10].author_uid = "u10"

\* two detail steps of one step decode with their texts untouched
TwoDetailsReached ==
    /\ pc = "decoded"
    /\ body = MinimalBuild("u1", <<StepOf(<<DetailFoodTime, DetailVillagers>>)>>)
    /\ outcome.ok
    /\ Len(outcome.val.steps[1].steps.v) = 2
    /\ outcome.val.steps[1].steps.v[1].food = Some("5")
    /\ outcome.val.steps[1].steps.v[1].time = Some("2:30")

(***************************************************************************)
(* Reading a request back: the route it targets and the parameters it      *)
(* carries, as the server sees them.                                       *)
(***************************************************************************)
HexChar(h) ==
    CASE h = <<"2", "F">> -> "/"
      [] h = <<"3", "F">> -> "?"
      [] h = <<"2", "3">> -> "#"
      [] h = <<"2", "6">> -> "&"
      [] h = <<"2", "5">> -> "%"
      [] h = <<"3", "D">> -> "="
      [] h = <<"2", "0">> -> " "
      [] h = <<"2", "E">> -> "."
      [] OTHER -> "%"

IsHex(h) ==
    h \in {<<"2", "F">>, <<"3", "F">>, <<"2", "3">>, <<"2", "6">>, <<"2", "5">>,
           <<"3", "D">>, <<"2", "0">>, <<"2", "E">>}

RECURSIVE PercentDecode(_)
PercentDecode(s) ==
    IF s = <<>> THEN <<>>
    ELSE IF Head(s) = "%" /\ Len(s) >= 3 /\ IsHex(SubSeq(s, 2, 3))
    THEN <<HexChar(SubSeq(s, 2, 3))>> \o PercentDecode(SubSeq(s, 4, Len(s)))
    ELSE <<Head(s)>> \o PercentDecode(Tail(s))

SegApi == <<"a", "p", "i">>
SegBuilds == <<"b", "u", "i", "l", "d", "s">>
SegFavorites == <<"f", "a", "v", "o", "r", "i", "t", "e", "s">>

QueryText(u) == IF u.query.some THEN u.query.v ELSE <<>>

\* the request goes to /api/<route>/<id>, the identifier being one segment
\* that decodes to id, and carries the encoder's parameters and no others
TargetsRoute(u, route, id, q) ==
    /\ u.scheme = <<"h", "t", "t", "p", "s">>
    /\ u.host = SubSeq(BASE_URI, 9, 22)
    /\ Len(u.path) = 3
    /\ u.path[1] = SegApi
    /\ u.path[2] = route
    /\ PercentDecode(u.path[3]) = id
    /\ ~u.fragment.some
    /\ QueryText(u) = Query_serialize(q)

HasUrlSyntax(id) == \E i \in 1..Len(id) : id[i] \in {"/", "?", "#", "%", "."}

MissingField(b) ==
    \E k \in MandatoryKeys :
        \/ k \notin DOMAIN b.o
        \/ /\ k \in {"timeCreated", "timeUpdated"}
           /\ b.o[k].t = "obj"
           /\ \E tk \in TimestampKeys : tk \notin DOMAIN b.o[k].o

LacksMandatory(op, doc) ==
    IF op = "get_build" THEN doc.t = "obj" /\ MissingField(doc)
    ELSE /\ doc.t = "arr"
         /\ \E i \in 1..Len(doc.a) : doc.a[i].t = "obj" /\ MissingField(doc.a[i])

TransportKinds == {"request", "body"}

(***************************************************************************)
(* Claims on the client (Spec)                                             *)
(***************************************************************************)
\* C6: a build order in the response that lacks a mandatory field
\* (authorUid, score, scoreAllTime, sortTitle, steps, timeCreated with its
\* _seconds and _nanoseconds, timeUpdated, views) makes the call fail as a
\* whole with a decode error, a kind no transport failure is reported with.
C6_MissingMandatoryIsDecodeError ==
    (pc = "idle" /\ args.op \in {"get_build", "get_builds", "get_favorites"}) =>
        /\ (body.kind = "json" /\ LacksMandatory(args.op, body.doc)) =>
              /\ ~outcome.ok
              /\ outcome.err = "decode"
              /\ outcome.err \notin TransportKinds
        /\ body.kind \in {"send_error", "read_error"} =>
              /\ ~outcome.ok
              /\ outcome.err \in TransportKinds
              /\ outcome.err # "decode"

C6_Witness ==
    /\ pc = "idle"
    /\ args.op = "get_build"
    /\ body = [kind |-> "json", doc |-> Without(MinimalBuild("u1", <<>>), "authorUid")]
    /\ outcome = Failed("decode")

\* C8: whatever build_id or user_id is passed, the request targets
\* /builds/{build_id} or /favorites/{user_id} with the identifier as one
\* path segment, and its parameters are those of the query encoder only.
C8_IdIsOneSegment ==
    /\ (pc = "sent" /\ args.op = "get_build") =>
          TargetsRoute(url, SegBuilds, args.build_id, query)
    /\ (pc = "sent" /\ args.op = "get_favorites") =>
          TargetsRoute(url, SegFavorites, args.user_id, query)

\* identifiers free of URL syntax do reach their route
PlainIdsReachRoute ==
    /\ (pc = "sent" /\ args.op = "get_build" /\ ~HasUrlSyntax(args.build_id)) =>
          TargetsRoute(url, SegBuilds, args.build_id, query)
    /\ (pc = "sent" /\ args.op = "get_favorites" /\ ~HasUrlSyntax(args.user_id)) =>
          TargetsRoute(url, SegFavorites, args.user_id, query)

\* C9: a get_build request is built with civilization Any and no sort
\* criterion and carries neither "civ" nor "orderBy": its query is empty
\* when overlay is false and "overlay=true" when overlay is true.
C9_GetBuildQuery ==
    (pc = "sent" /\ args.op = "get_build") =>
        /\ query = [civ |-> None, order_by |-> None, overlay |-> args.overlay]
        /\ NameCiv \notin ParamNames(QueryText(url))
        /\ NameOrderBy \notin ParamNames(QueryText(url))
        /\ QueryText(url) =
              (IF args.overlay THEN NameOverlay \o <<"=">> \o TextTrue ELSE <<>>)

\* the same, for identifiers holding neither '?' nor '#'
GetBuildQueryOfPlainIds ==
    (/\ pc = "sent"
     /\ args.op = "get_build"
     /\ \A i \in 1..Len(args.build_id) : args.build_id[i] \notin {"?", "#"}) =>
        /\ query = [civ |-> None, order_by |-> None, overlay |-> args.overlay]
        /\ QueryText(url) =
              (IF args.overlay THEN NameOverlay \o <<"=">> \o TextTrue ELSE <<>>)

\* the outcome of a finished call, from its endpoint and its response alone
OutcomeFor(op, b) ==
    IF b.kind = "send_error" THEN Failed("request")
    ELSE IF b.kind = "read_error" THEN Failed("body")
    ELSE IF b.kind = "not_json" THEN Failed("decode")
    ELSE LET r == Deserialize(ResponseType(op), b.doc)
         IN  IF r.ok THEN Ok(r.val) ELSE Failed("decode")

\* C10: in any sequence of endpoint calls each call hands exactly one GET
\* request to the transport (none is answered without one, none is sent
\* again after a failure), and the outcome of a call is determined by its
\* endpoint and its response.
C10_OneRequestPerCall ==
    /\ nSent = nCalls
    /\ pc \in {"sent", "received"} => outcome = Idle
    /\ (pc = "idle" /\ nCalls > 0) => outcome = OutcomeFor(args.op, body)

C10_Witness ==
    /\ pc = "idle"
    /\ nCalls = 2
    /\ nSent = 2
    /\ body = [kind |-> "send_error"]
    /\ outcome = Failed("request")

====
